---------------------------- MODULE Spec2Model ----------------------------
(***************************************************************************)
(* A model of the boids simulation (Runner in src/main.js, the Boid class  *)
(* in src/unnamed/part_000).                                               *)
(*                                                                         *)
(* Numbers.  The code computes with IEEE doubles through paper.js Points.  *)
(* The model computes in fixed point: every coordinate is an integer       *)
(* number of steps of 0.1, the amplitude of the noise term, so that 1.0 is *)
(* Unit = 10 steps.  Sums, differences and products with the (integer)     *)
(* weights are exact; every operation in which the code divides or takes a *)
(* square root (divide, normalize, setting .length) rounds its result      *)
(* toward zero to the lattice.  A Point whose coordinates are NaN (0/0 in  *)
(* the code) is the value NaNPoint; every comparison with it is false and  *)
(* every operation on it yields it, as in JavaScript.                      *)
(***************************************************************************)
EXTENDS Integers, Sequences, FiniteSets, TLC

\* ------------------------------------------------------------------ bounds
MaxBoids == 2
MaxTicks == 2
MaxObstacles == 2
MaxResets == 1
\* The number of handler calls (frames, clicks, resizes, submissions) followed.
MaxEvents == 4

\* --------------------------------------------------------------- constants
\* 1.0 in lattice steps (the lattice step is the noise amplitude, 0.1).
Unit == 10
\* Point.random().subtract(new Point(.5, .5)).multiply(2 * .1): each noise
\* component lies in [-0.1, 0.1).
NoiseMax == 1

\* ------------------------------------------------------------- paper.Point
Pt(a, b) == [x |-> a, y |-> b, nan |-> FALSE]
ZeroPoint == Pt(0, 0)
NaNPoint == [x |-> 0, y |-> 0, nan |-> TRUE]

Abs(a) == IF a < 0 THEN -a ELSE a
Sgn(a) == IF a < 0 THEN -1 ELSE IF a > 0 THEN 1 ELSE 0

\* Division rounded toward zero (b > 0).
TDiv(a, b) == Sgn(a) * (Abs(a) \div b)

RECURSIVE IsqrtFrom(_, _)
IsqrtFrom(m, k) == IF (k + 1) * (k + 1) > m THEN k ELSE IsqrtFrom(m, k + 1)
\* floor(sqrt(m)), m >= 0.
Isqrt(m) == IsqrtFrom(m, 0)

\* a * l / sqrt(n) rounded toward zero (n > 0, l >= 0).
ScaleBySqrt(a, l, n) == Sgn(a) * Isqrt((a * a * l * l) \div n)

add(p, q) == IF p.nan \/ q.nan THEN NaNPoint ELSE Pt(p.x + q.x, p.y + q.y)
subtract(p, q) == IF p.nan \/ q.nan THEN NaNPoint ELSE Pt(p.x - q.x, p.y - q.y)
\* Point times a number (the weights of the model are integers).
multiply(p, k) == IF p.nan THEN NaNPoint ELSE Pt(p.x * k, p.y * k)
\* Point divided by a positive integer (numBoidsSeen).
divide(p, k) == IF p.nan THEN NaNPoint ELSE Pt(TDiv(p.x, k), TDiv(p.y, k))
dot(p, q) == p.x * q.x + p.y * q.y
\* The square of p.length (p not NaN).
Len2(p) == p.x * p.x + p.y * p.y

\* Comparisons of p.length with a number r; false on NaN.
LengthLT(p, r) == ~p.nan /\ r > 0 /\ Len2(p) < r * r
LengthGT(p, r) == ~p.nan /\ (r < 0 \/ Len2(p) > r * r)
LengthEQ0(p) == ~p.nan /\ p.x = 0 /\ p.y = 0

\* p.length = l.  On the zero vector paper.js keeps the angle (0 here).
setLength(p, l) ==
    IF p.nan THEN NaNPoint
    ELSE IF LengthEQ0(p) THEN Pt(l, 0)
    ELSE Pt(ScaleBySqrt(p.x, l, Len2(p)), ScaleBySqrt(p.y, l, Len2(p)))

\* p.normalize(): the zero vector stays the zero vector.
normalize(p) ==
    IF p.nan THEN NaNPoint
    ELSE IF LengthEQ0(p) THEN ZeroPoint
    ELSE Pt(ScaleBySqrt(p.x, Unit, Len2(p)), ScaleBySqrt(p.y, Unit, Len2(p)))

\* p.divide(d.length): a division by the real number |d| / Unit; 0/0 is NaN.
divideByLength(p, d) ==
    IF p.nan \/ d.nan THEN NaNPoint
    ELSE IF Len2(d) = 0 THEN NaNPoint
    ELSE Pt(ScaleBySqrt(p.x, Unit, Len2(d)), ScaleBySqrt(p.y, Unit, Len2(d)))


\* -------------------------------------------------------------------- Boid
\* A boid is [pos, vel, runner]: this.instance.position, this.velocity and
\* the Runner whose constructor made the object.  The flock shares one parameter object P: P.maxSpeed, P.maxForce,
\* P.weights.{cohesion, avoidance, following, obstacles},
\* P.perceptionRadii.{followRadius, avoidRadius}.

\* A getSteer without the test for a zero `desired`.
getSteer_subtracting(desired, velocity, P) ==
    LET steer == subtract(setLength(desired, P.maxSpeed), velocity)
    IN  IF LengthGT(steer, P.maxForce)
        THEN setLength(steer, P.maxForce)
        ELSE steer

\* The steer towards `desired` of a boid whose velocity is `velocity`.
getSteer(desired, velocity, P) ==
    IF LengthEQ0(desired) THEN ZeroPoint
    ELSE LET steer == subtract(setLength(desired, P.maxSpeed), velocity)
         IN  IF LengthGT(steer, P.maxForce)
             THEN setLength(steer, P.maxForce)
             ELSE steer

displacement(bs, i, me) == subtract(bs[i].pos, bs[me].pos)

\* A cohesion loop with the test boids[i] != this of the other two loops.
CohesionSeen_excludingSelf(bs, me, P) ==
    {i \in 1..Len(bs) :
        i # me /\ LengthLT(displacement(bs, i, me), P.perceptionRadii.followRadius)}

\* The boids the cohesion loop counts (no test for boids[i] != this).
CohesionSeen(bs, me, P) ==
    {i \in 1..Len(bs) :
        LengthLT(displacement(bs, i, me), P.perceptionRadii.followRadius)}

\* The boids the avoidance loop counts.
AvoidanceSeen(bs, me, P) ==
    {i \in 1..Len(bs) :
        i # me /\ LengthLT(displacement(bs, i, me), P.perceptionRadii.avoidRadius)}

\* The boids the following loop counts.
FollowSeen(bs, me, P) ==
    {i \in 1..Len(bs) :
        i # me /\ LengthLT(displacement(bs, i, me), P.perceptionRadii.followRadius)}

RECURSIVE centerOfMassSum(_, _, _)
centerOfMassSum(bs, seen, i) ==
    IF i = 0 THEN ZeroPoint
    ELSE IF i \in seen THEN add(centerOfMassSum(bs, seen, i - 1), bs[i].pos)
    ELSE centerOfMassSum(bs, seen, i - 1)

\* centerOfMass.subtract(this.instance.position): what the cohesion loop
\* hands to getSteer.  With nobody counted centerOfMass is still new Point().
cohesionDesired(bs, me, P) ==
    LET seen == CohesionSeen(bs, me, P)
        numBoidsSeen == Cardinality(seen)
        total == centerOfMassSum(bs, seen, Len(bs))
        centerOfMass == IF numBoidsSeen > 0 THEN divide(total, numBoidsSeen)
                        ELSE total
    IN  subtract(centerOfMass, bs[me].pos)

getCohesionVector(bs, me, P) ==
    getSteer(cohesionDesired(bs, me, P), bs[me].vel, P)

RECURSIVE avoidanceSum(_, _, _, _)
avoidanceSum(bs, me, seen, i) ==
    IF i = 0 THEN ZeroPoint
    ELSE IF i \in seen
    THEN subtract(avoidanceSum(bs, me, seen, i - 1),
                  divideByLength(normalize(displacement(bs, i, me)),
                                 displacement(bs, i, me)))
    ELSE avoidanceSum(bs, me, seen, i - 1)

getAvoidanceVector(bs, me, P) ==
    getSteer(avoidanceSum(bs, me, AvoidanceSeen(bs, me, P), Len(bs)),
             bs[me].vel, P)

RECURSIVE avgVelocitySum(_, _, _)
avgVelocitySum(bs, seen, i) ==
    IF i = 0 THEN ZeroPoint
    ELSE IF i \in seen THEN add(avgVelocitySum(bs, seen, i - 1), bs[i].vel)
    ELSE avgVelocitySum(bs, seen, i - 1)

\* A following loop without the test boids[i] != this.
getFollowVector_countingSelf(bs, me, P) ==
    getSteer(avgVelocitySum(bs, CohesionSeen(bs, me, P), Len(bs)), bs[me].vel, P)

\* `avgVelocity.divide(numBoidsSeen)` discards its result: the sum is used.
getFollowVector(bs, me, P) ==
    getSteer(avgVelocitySum(bs, FollowSeen(bs, me, P), Len(bs)), bs[me].vel, P)

cross(p, q) == p.x * q.y - p.y * q.x

\* perp = disp - velocity * (disp.dot(velocity) / velocity.length^2), kept
\* exactly as perp * velocity.length^2 = cross(velocity, disp) * (-v.y, v.x);
\* a zero velocity divides 0 by 0.
perpOf(disp, velocity) ==
    IF disp.nan \/ velocity.nan THEN NaNPoint
    ELSE IF Len2(velocity) = 0 THEN NaNPoint
    ELSE multiply(Pt(0 - velocity.y, velocity.x), cross(velocity, disp))

\* perp.length < affectRadius, on the scaled perp; false on NaN.
perpWithin(disp, velocity, affectRadius) ==
    /\ ~perpOf(disp, velocity).nan
    /\ affectRadius > 0
    /\ Len2(perpOf(disp, velocity))
           < affectRadius * affectRadius * Len2(velocity) * Len2(velocity)

\* perp.multiply(-1) up to a positive factor (only its direction is used):
\* the normal of the velocity on the side away from the obstacle, zero when
\* the obstacle lies on the line of travel.
awayFrom(disp, velocity) ==
    multiply(Pt(0 - velocity.y, velocity.x), 0 - Sgn(cross(velocity, disp)))

\* An obstacle loop that records the distance of every obstacle nearer than
\* the nearest so far, hit or not.
RECURSIVE obstacleScan_nearestOfAll(_, _, _)
obstacleScan_nearestOfAll(b, obs, i) ==
    IF i = 0 THEN [vec |-> ZeroPoint, closest |-> 0 - 1]
    ELSE LET before == obstacleScan_nearestOfAll(b, obs, i - 1)
             disp == subtract(obs[i].pos, b.pos)
         IN  IF before.closest < 0 \/ Len2(disp) < before.closest
             THEN [vec |-> IF perpWithin(disp, b.vel, obs[i].affectRadius)
                           THEN awayFrom(disp, b.vel) ELSE before.vec,
                   closest |-> Len2(disp)]
             ELSE before

\* The obstacle loop up to obstacle i: [vec, closest], closest = -1 while
\* closestDist still holds its initial 99999999999 (beyond every distance
\* of the bounded domain), else the square of closestDist.
RECURSIVE obstacleScan(_, _, _)
obstacleScan(b, obs, i) ==
    IF i = 0 THEN [vec |-> ZeroPoint, closest |-> 0 - 1]
    ELSE LET before == obstacleScan(b, obs, i - 1)
             disp == subtract(obs[i].pos, b.pos)
         IN  IF perpWithin(disp, b.vel, obs[i].affectRadius)
                /\ (before.closest < 0 \/ Len2(disp) < before.closest)
             THEN [vec |-> awayFrom(disp, b.vel), closest |-> Len2(disp)]
             ELSE before

getObstacleVector(b, obs) ==
    LET obstacleVector == obstacleScan(b, obs, Len(obs)).vec
    IN  IF LengthGT(obstacleVector, 0) THEN normalize(obstacleVector)
        ELSE obstacleVector

applyForce(velocity, force) == add(velocity, force)

\* An updateVelocity that applies each force before it computes the next.
updateVelocity_afterEach(bs, me, obs, P, noise) ==
    LET bs1 == [bs EXCEPT ![me].vel =
                   add(bs[me].vel,
                       multiply(getCohesionVector(bs, me, P), P.weights.cohesion))]
        bs2 == [bs1 EXCEPT ![me].vel =
                   add(bs1[me].vel,
                       multiply(getAvoidanceVector(bs1, me, P), P.weights.avoidance))]
        bs3 == [bs2 EXCEPT ![me].vel =
                   add(bs2[me].vel,
                       multiply(getFollowVector(bs2, me, P), P.weights.following))]
        v == add(add(bs3[me].vel,
                     multiply(getObstacleVector(bs3[me], obs), P.weights.obstacles)),
                 noise)
    IN  IF LengthGT(v, P.maxSpeed) THEN setLength(v, P.maxSpeed) ELSE v

\* The velocity of boid `me` after updateVelocity, with `noise` the draw of
\* Point.random() already centred and scaled.
updateVelocity(bs, me, obs, P, noise) ==
    LET cohesion == multiply(getCohesionVector(bs, me, P), P.weights.cohesion)
        avoidance == multiply(getAvoidanceVector(bs, me, P), P.weights.avoidance)
        follow == multiply(getFollowVector(bs, me, P), P.weights.following)
        obstacleVec == multiply(getObstacleVector(bs[me], obs), P.weights.obstacles)
        v == applyForce(applyForce(applyForce(applyForce(applyForce(
                 bs[me].vel, cohesion), avoidance), follow), obstacleVec), noise)
    IN  IF LengthGT(v, P.maxSpeed) THEN setLength(v, P.maxSpeed) ELSE v

\* A react that also moves the boid (the two-phase split lost).
react_moving(bs, me, obs, P, noise) ==
    [bs EXCEPT ![me].vel = updateVelocity(bs, me, obs, P, noise),
               ![me].pos = add(bs[me].pos, updateVelocity(bs, me, obs, P, noise))]

\* react(boids, obstacles) of boid `me`: the boid list after the call.
react(bs, me, obs, P, noise) ==
    [bs EXCEPT ![me].vel = updateVelocity(bs, me, obs, P, noise)]

\* checkBorders with >= and <= in place of > and <.
checkBorders_inclusive(p, sz) ==
    IF p.nan THEN p
    ELSE Pt(IF p.x >= sz.width THEN 0 ELSE IF p.x <= 0 THEN sz.width ELSE p.x,
            IF p.y >= sz.height THEN 0 ELSE IF p.y <= 0 THEN sz.height ELSE p.y)

\* checkBorders wrapping by the domain size instead of teleporting to the edge.
checkBorders_modular(p, sz) ==
    IF p.nan THEN p
    ELSE Pt(IF p.x > sz.width THEN p.x - sz.width
            ELSE IF p.x < 0 THEN p.x + sz.width ELSE p.x,
            IF p.y > sz.height THEN p.y - sz.height
            ELSE IF p.y < 0 THEN p.y + sz.height ELSE p.y)

\* checkBorders on position p with view.size = sz.
checkBorders(p, sz) ==
    IF p.nan THEN p
    ELSE Pt(IF p.x > sz.width THEN 0 ELSE IF p.x < 0 THEN sz.width ELSE p.x,
            IF p.y > sz.height THEN 0 ELSE IF p.y < 0 THEN sz.height ELSE p.y)

\* The position before the boundary pass: position.add(velocity).
integrate(b) == add(b.pos, b.vel)

\* An update that runs the boundary pass before it moves the boid.
update_wrapFirst(bs, me, sz) ==
    [bs EXCEPT ![me].pos = add(checkBorders(bs[me].pos, sz), bs[me].vel)]

\* update() of boid `me`: the boid list after the call.
update(bs, me, sz) ==
    [bs EXCEPT ![me].pos = checkBorders(integrate(bs[me]), sz)]


\* ------------------------------------------- Boid, src/development/boid.js
\* The development Boid function.  Its getSteer, getCohesionVector,
\* getAvoidanceVector, update and checkBorders are the release ones written
\* with PaperScript operators; the definitions above stand for them.

\* `avgVelocity /= numBoidsSeen` divides in place: the average is steered to.
dev_getFollowVector(bs, me, P) ==
    LET seen == FollowSeen(bs, me, P)
        numBoidsSeen == Cardinality(seen)
        total == avgVelocitySum(bs, seen, Len(bs))
        avgVelocity == IF numBoidsSeen > 0 THEN divide(total, numBoidsSeen)
                       ELSE total
    IN  getSteer(avgVelocity, bs[me].vel, P)

\* The same loop; `return obstacleVector.normalize()` without a length test.
dev_getObstacleVector(b, obs) == normalize(obstacleScan(b, obs, Len(obs)).vec)

\* applyForce(boids, obstacles): one sum of the four weighted vectors, then
\* the noise, then the clamp.
dev_applyForce(bs, me, obs, P, noise) ==
    LET sum == add(add(add(multiply(getCohesionVector(bs, me, P), P.weights.cohesion),
                           multiply(getAvoidanceVector(bs, me, P), P.weights.avoidance)),
                       multiply(dev_getFollowVector(bs, me, P), P.weights.following)),
                   multiply(dev_getObstacleVector(bs[me], obs), P.weights.obstacles))
        v == add(add(bs[me].vel, sum), noise)
    IN  IF LengthGT(v, P.maxSpeed) THEN setLength(v, P.maxSpeed) ELSE v


\* ------------------------------------------------------------------ Runner
VARIABLES
    parameters,   \* the parameters object the Controller holds and hands to
                  \* each Runner; the boids keep a reference to its weights
    copied,       \* the numbers the constructors copied out of it
    constructedWith, \* history: parameters as the running Runner was given it
    rewritten,    \* history: the last submission stored other weights
    boids,        \* this.boids
    obstacles,    \* this.obstacles: a sequence of [pos, affectRadius, runner]
    size,         \* view.size
    pc,           \* where onFrame stands: "idle", "react" or "update"
    idx,          \* the loop variable i of the running loop of onFrame
    ticks,        \* the number of onFrame calls so far
    events,       \* the number of handler calls so far
    resets,       \* the number of "Update & Restart" submissions so far
    replaced,     \* history: the last submission dropped both boids and obstacles
    pre,          \* history: this.boids when the current onFrame began
    tickSize,     \* history: view.size when the current onFrame began
    noises,       \* history: the noise drawn for each boid, this tick
    moved,        \* history: each position as it entered checkBorders, this tick
    calls         \* history: the react and update calls of this tick, in order

vars == <<parameters, copied, constructedWith, rewritten, boids, obstacles, size,
          pc, idx, ticks, events, resets, replaced, pre, tickSize, noises, moved,
          calls>>

\* this.defaultVelocity = 3
defaultVelocity == 3 * Unit

\* Directions `new Point({length, angle})` can take with lattice coordinates,
\* in fifths of the length.
Headings ==
    << <<5, 0>>, <<3, 4>>, <<0, 5>>, <<-4, 3>>,
       <<-5, 0>>, <<-3, -4>>, <<0, -5>>, <<4, -3>> >>

\* Recorded draws of the random generator, one row per run of the
\* constructor: for each boid the draw of Point.random() (in quarters) and
\* the heading drawn from Math.random() * 360.
Draws ==
    << << [rx |-> 1, ry |-> 0, heading |-> 1], [rx |-> 2, ry |-> 0, heading |-> 5],
          [rx |-> 3, ry |-> 2, heading |-> 3], [rx |-> 0, ry |-> 3, heading |-> 8] >>,
       << [rx |-> 2, ry |-> 1, heading |-> 6], [rx |-> 3, ry |-> 2, heading |-> 2],
          [rx |-> 0, ry |-> 0, heading |-> 7], [rx |-> 1, ry |-> 3, heading |-> 4] >>,
       << [rx |-> 3, ry |-> 3, heading |-> 2], [rx |-> 3, ry |-> 2, heading |-> 8],
          [rx |-> 1, ry |-> 1, heading |-> 5], [rx |-> 2, ry |-> 0, heading |-> 3] >> >>

\* The sizes the view takes.
Sizes == {[width |-> 8, height |-> 6], [width |-> 5, height |-> 7]}
InitialSize == [width |-> 8, height |-> 6]

\* The points of the mouse clicks.
MousePoints == {Pt(4, 3), Pt(1, 5)}

\* The noise draws: (0, 0) and (-0.1, -0.1), which Point.random() yields
\* for the draws (0.5, 0.5) and (0, 0).
NoiseDraws == {Pt(0, 0), Pt(0 - NoiseMax, 0 - NoiseMax)}

W(c, a, f, o) == [cohesion |-> c, avoidance |-> a, following |-> f, obstacles |-> o]
R(f, a) == [followRadius |-> f, avoidRadius |-> a]
Settings(ms, mf, oar, w, r) ==
    [maxSpeed |-> ms, maxForce |-> mf, obstacleAffectRadius |-> oar,
     weights |-> w, perceptionRadii |-> r]

\* The settings the simulation is started with (lengths in lattice steps).
SettingsTried ==
    { Settings(3, 1, 3, W(1, 4, 2, 1), R(5, 3)),
      Settings(2, 1, 3, W(0, 2, 0, 0), R(5, 4)),
      Settings(3, 2, 3, W(1, 0, 0, 0), R(0, 0)),
      Settings(3, 1, 3, W(0, 0, 1, 0), R(9, 0)),
      Settings(3, 1, 4, W(0, 0, 0, 1), R(0, 0)),
      Settings(2, 0, 2, W(0 - 1, 0, 0, 0 - 1), R(4, 0 - 1)),
      Settings(0, 1, 3, W(1, 1, 1, 1), R(5, 3)),
      Settings(1, 0, 3, W(1, 1, 1, 0), R(5, 3)) }

\* The settings and the numBoids values submitted with "Update & Restart":
\* the text fields hold digits and dots only (validateChars), and the code
\* uses each text as the number it spells.
SubmittedTried ==
    { Settings(3, 1, 3, W(1, 4, 2, 1), R(5, 3)),
      Settings(3, 1, 4, W(0, 0, 0, 1), R(0, 0)) }
SubmittedCounts == {0, 1, 2}

\* The values numBoids is given; the constructor takes any.
NumBoidsTried == (0 - 1)..MaxBoids

\* The parameters object for settings s and numBoids = n.
parametersOf(s, n) ==
    [overall |-> [numBoids |-> n,
                  maxSpeed |-> s.maxSpeed,
                  maxForce |-> s.maxForce,
                  obstacleAffectRadius |-> s.obstacleAffectRadius],
     weights |-> s.weights,
     perceptionRadii |-> s.perceptionRadii]

\* What the constructors read out of the parameters object ps and keep as
\* numbers: the Runner numBoids, maxSpeed, maxForce and obstacleAffectRadius,
\* every Boid followRadius, avoidRadius, maxSpeed and maxForce.
copiedFrom(ps) ==
    [numBoids |-> ps.overall.numBoids,
     maxSpeed |-> ps.overall.maxSpeed,
     maxForce |-> ps.overall.maxForce,
     obstacleAffectRadius |-> ps.overall.obstacleAffectRadius,
     followRadius |-> ps.perceptionRadii.followRadius,
     avoidRadius |-> ps.perceptionRadii.avoidRadius]

\* The boid the constructor's loop makes from one row entry, in Runner r.
newBoid(d, sz, r) ==
    [pos |-> Pt(TDiv(d.rx * sz.width, 4), TDiv(d.ry * sz.height, 4)),
     vel |-> Pt((Headings[d.heading][1] * defaultVelocity) \div 5,
                (Headings[d.heading][2] * defaultVelocity) \div 5),
     runner |-> r]

\* A loop that tests its condition after the body: one boid at least.
generateBoids_atLeastOne(n, row, sz, r) ==
    [i \in 1..(IF n > 1 THEN n ELSE 1) |-> newBoid(row[((i - 1) % Len(row)) + 1], sz, r)]

\* The boids the loop `for (i = 0; i < numBoids; i++)` pushes for
\* numBoids = n from row `row`: none when n <= 0.
generateBoids(n, row, sz, r) ==
    [i \in 1..n |-> newBoid(row[((i - 1) % Len(row)) + 1], sz, r)]

\* new Controller(defaultParameters): the first new Runner(parameters)
Init ==
    /\ \E s \in SettingsTried, n \in NumBoidsTried, k \in 1..Len(Draws) :
          /\ parameters = parametersOf(s, n)
          /\ boids = generateBoids(n, Draws[k], InitialSize, 0)
    /\ copied = copiedFrom(parameters)
    /\ constructedWith = parameters
    /\ rewritten = FALSE
    /\ obstacles = << >>
    /\ size = InitialSize
    /\ pc = "idle"
    /\ idx = 0
    /\ ticks = 0
    /\ events = 0
    /\ resets = 0
    /\ replaced = FALSE
    /\ pre = boids
    /\ tickSize = size
    /\ noises = << >>
    /\ moved = << >>
    /\ calls = << >>

\* What a Boid computes with: the numbers its constructor copied, and the
\* weights, which it reads through its reference to parameters["weights"]
\* whenever updateVelocity runs.
BoidParams ==
    [maxSpeed |-> copied.maxSpeed,
     maxForce |-> copied.maxForce,
     weights |-> parameters.weights,
     perceptionRadii |-> [followRadius |-> copied.followRadius,
                          avoidRadius |-> copied.avoidRadius]]

\* onFrame is entered.
onFrameBegin ==
    /\ pc = "idle"
    /\ ticks < MaxTicks
    /\ events < MaxEvents
    /\ events' = events + 1
    /\ pc' = "react"
    /\ idx' = 1
    /\ ticks' = ticks + 1
    /\ pre' = boids
    /\ tickSize' = size
    /\ noises' = << >>
    /\ moved' = << >>
    /\ calls' = << >>
    /\ UNCHANGED <<parameters, copied, constructedWith, rewritten,
                   boids, obstacles, size, resets, replaced>>

\* A react loop that does not yet see the obstacle placed last.
React_unaware ==
    /\ pc = "react"
    /\ idx <= Len(boids)
    /\ \E noise \in NoiseDraws :
          /\ boids' = react(boids, idx, SubSeq(obstacles, 1, Len(obstacles) - 1),
                            BoidParams, noise)
          /\ noises' = Append(noises, noise)
    /\ calls' = Append(calls, <<"react", idx>>)
    /\ idx' = idx + 1
    /\ UNCHANGED <<parameters, copied, constructedWith, rewritten,
                   obstacles, size, pc, ticks, events, resets, replaced,
                   pre, tickSize, moved>>

\* One pass of the first loop of onFrame: boids[i].react(boids, obstacles).
React ==
    /\ pc = "react"
    /\ idx <= Len(boids)
    /\ \E noise \in NoiseDraws :
          /\ boids' = react(boids, idx, obstacles, BoidParams, noise)
          /\ noises' = Append(noises, noise)
    /\ calls' = Append(calls, <<"react", idx>>)
    /\ idx' = idx + 1
    /\ UNCHANGED <<parameters, copied, constructedWith, rewritten,
                   obstacles, size, pc, ticks, events, resets, replaced,
                   pre, tickSize, moved>>

\* The first loop left one boid early.
ReactLoopEnd_early ==
    /\ pc = "react"
    /\ idx >= Len(boids)
    /\ pc' = "update"
    /\ idx' = 1
    /\ UNCHANGED <<parameters, copied, constructedWith, rewritten,
                   boids, obstacles, size, ticks, events, resets, replaced,
                   pre, tickSize, noises, moved, calls>>

\* The first loop of onFrame ends, the second begins.
ReactLoopEnd ==
    /\ pc = "react"
    /\ idx > Len(boids)
    /\ pc' = "update"
    /\ idx' = 1
    /\ UNCHANGED <<parameters, copied, constructedWith, rewritten,
                   boids, obstacles, size, ticks, events, resets, replaced,
                   pre, tickSize, noises, moved, calls>>

\* An update loop whose boundary pass keeps the size of the first view.
Update_stale ==
    /\ pc = "update"
    /\ idx <= Len(boids)
    /\ boids' = update(boids, idx, InitialSize)
    /\ moved' = Append(moved, integrate(boids[idx]))
    /\ calls' = Append(calls, <<"update", idx>>)
    /\ idx' = idx + 1
    /\ UNCHANGED <<parameters, copied, constructedWith, rewritten,
                   obstacles, size, pc, ticks, events, resets, replaced,
                   pre, tickSize, noises>>

\* An update loop whose update also turns the neighbour last updated to the
\* boid's heading.
Update_aligning ==
    /\ pc = "update"
    /\ idx <= Len(boids)
    /\ boids' = IF idx > 1
                THEN [update(boids, idx, size) EXCEPT ![idx - 1].vel = boids[idx].vel]
                ELSE update(boids, idx, size)
    /\ moved' = Append(moved, integrate(boids[idx]))
    /\ calls' = Append(calls, <<"update", idx>>)
    /\ idx' = idx + 1
    /\ UNCHANGED <<parameters, copied, constructedWith, rewritten,
                   obstacles, size, pc, ticks, events, resets, replaced,
                   pre, tickSize, noises>>

\* One pass of the second loop of onFrame: boids[i].update().
Update ==
    /\ pc = "update"
    /\ idx <= Len(boids)
    /\ boids' = update(boids, idx, size)
    /\ moved' = Append(moved, integrate(boids[idx]))
    /\ calls' = Append(calls, <<"update", idx>>)
    /\ idx' = idx + 1
    /\ UNCHANGED <<parameters, copied, constructedWith, rewritten,
                   obstacles, size, pc, ticks, events, resets, replaced,
                   pre, tickSize, noises>>

\* The second loop ends; onFrame refreshes the FPS counter and returns.
onFrameEnd ==
    /\ pc = "update"
    /\ idx > Len(boids)
    /\ pc' = "idle"
    /\ idx' = 0
    /\ UNCHANGED <<parameters, copied, constructedWith, rewritten,
                   boids, obstacles, size, ticks, events, resets, replaced,
                   pre, tickSize, noises, moved, calls>>

\* An onMouseDown that keeps only the latest obstacle.
onMouseDown_latest ==
    /\ pc = "idle"
    /\ Len(obstacles) < MaxObstacles
    /\ events < MaxEvents
    /\ events' = events + 1
    /\ \E point \in MousePoints :
          obstacles' = << [pos |-> point,
                           affectRadius |-> copied.obstacleAffectRadius,
                           runner |-> resets] >>
    /\ UNCHANGED <<parameters, copied, constructedWith, rewritten,
                   boids, size, pc, idx, ticks, resets, replaced,
                   pre, tickSize, noises, moved, calls>>

\* onMouseDown(event): handlers run between frames, never inside onFrame.
onMouseDown ==
    /\ pc = "idle"
    /\ Len(obstacles) < MaxObstacles
    /\ events < MaxEvents
    /\ events' = events + 1
    /\ \E point \in MousePoints :
          obstacles' = Append(obstacles,
              [pos |-> point,
               affectRadius |-> copied.obstacleAffectRadius,
               runner |-> resets])
    /\ UNCHANGED <<parameters, copied, constructedWith, rewritten,
                   boids, size, pc, idx, ticks, resets, replaced,
                   pre, tickSize, noises, moved, calls>>

\* The view is resized: view.size changes and setupBackground redraws.
onResize ==
    /\ pc = "idle"
    /\ events < MaxEvents
    /\ events' = events + 1
    /\ \E sz \in Sizes \ {size} : size' = sz
    /\ UNCHANGED <<parameters, copied, constructedWith, rewritten,
                   boids, obstacles, pc, idx, ticks, resets, replaced,
                   pre, tickSize, noises, moved, calls>>

\* A handler that stores the text fields in the parameters object and does
\* not construct a Runner (as a handler of the fields' change event would).
onSubmit_storing ==
    /\ pc = "idle"
    /\ resets < MaxResets
    /\ events < MaxEvents
    /\ events' = events + 1
    /\ \E s \in SubmittedTried, n \in SubmittedCounts :
          parameters' = parametersOf(s, n)
    /\ UNCHANGED <<copied, constructedWith, rewritten, boids, obstacles, size, pc,
                   idx, ticks, resets, replaced, pre, tickSize, noises, moved,
                   calls>>

\* An onSubmit that constructs the new Runner without emptying this.obstacles.
onSubmit_keeping ==
    /\ pc = "idle"
    /\ resets < MaxResets
    /\ events < MaxEvents
    /\ events' = events + 1
    /\ \E s \in SubmittedTried, n \in SubmittedCounts, k \in 1..Len(Draws) :
          /\ parameters' = parametersOf(s, n)
          /\ boids' = generateBoids(n, Draws[k], size, resets + 1)
    /\ copied' = copiedFrom(parameters')
    /\ constructedWith' = parameters'
    /\ rewritten' = (parameters'.weights # parameters.weights)
    /\ resets' = resets + 1
    /\ replaced' = (Len(boids) > 0 /\ Len(obstacles) > 0)
    /\ pre' = boids'
    /\ tickSize' = size
    /\ noises' = << >>
    /\ moved' = << >>
    /\ calls' = << >>
    /\ UNCHANGED <<obstacles, size, pc, idx, ticks>>

\* "Update & Restart": onSubmit stores the text fields in the parameters
\* object and runs new Runner(this.parameters), whose constructor removes
\* every item of the layer, starts with empty boids and obstacles lists,
\* binds view.onFrame, view.onResize and tool.onMouseDown to the new Runner
\* and generates the boids in the current view.
onSubmit ==
    /\ pc = "idle"
    /\ resets < MaxResets
    /\ events < MaxEvents
    /\ events' = events + 1
    /\ \E s \in SubmittedTried, n \in SubmittedCounts, k \in 1..Len(Draws) :
          /\ parameters' = parametersOf(s, n)
          /\ boids' = generateBoids(n, Draws[k], size, resets + 1)
    /\ copied' = copiedFrom(parameters')
    /\ constructedWith' = parameters'
    /\ rewritten' = (parameters'.weights # parameters.weights)
    /\ obstacles' = << >>
    /\ resets' = resets + 1
    /\ replaced' = (Len(boids) > 0 /\ Len(obstacles) > 0)
    /\ pre' = boids'
    /\ tickSize' = size
    /\ noises' = << >>
    /\ moved' = << >>
    /\ calls' = << >>
    /\ UNCHANGED <<size, pc, idx, ticks>>

Next ==
    \/ onFrameBegin
    \/ React
    \/ ReactLoopEnd
    \/ Update
    \/ onFrameEnd
    \/ onMouseDown
    \/ onResize
    \/ onSubmit

Spec == Init /\ [][Next]_vars

\* ------------------------------------------------ a boid brought to rest
\* Settings under which a boid comes to rest: a following steer that cancels
\* the velocity of a boid flying against its neighbour (maxForce 3.0, the
\* default speed), and maxSpeed 0.
RestSettings ==
    { Settings(2, 30, 3, W(0, 0, 1, 0), R(9, 3)),
      Settings(0, 1, 3, W(1, 1, 1, 1), R(5, 3)) }

\* new Controller(parameters) with one of these settings.
RestInit ==
    /\ \E s \in RestSettings, n \in NumBoidsTried, k \in 1..Len(Draws) :
          /\ parameters = parametersOf(s, n)
          /\ boids = generateBoids(n, Draws[k], InitialSize, 0)
    /\ copied = copiedFrom(parameters)
    /\ constructedWith = parameters
    /\ rewritten = FALSE
    /\ obstacles = << >>
    /\ size = InitialSize
    /\ pc = "idle"
    /\ idx = 0
    /\ ticks = 0
    /\ events = 0
    /\ resets = 0
    /\ replaced = FALSE
    /\ pre = boids
    /\ tickSize = size
    /\ noises = << >>
    /\ moved = << >>
    /\ calls = << >>

RestSpec == RestInit /\ [][Next]_vars

\* --------------------------------------------- the first frame of a flock
\* The number of boids of the flock whose first frame is followed.
MaxFlock == 3

\* Further recorded draws of the random generator.
FlockDraws ==
    Draws \o
    << << [rx |-> 1, ry |-> 1, heading |-> 1], [rx |-> 2, ry |-> 2, heading |-> 3],
          [rx |-> 3, ry |-> 1, heading |-> 5], [rx |-> 0, ry |-> 3, heading |-> 7] >>,
       << [rx |-> 2, ry |-> 2, heading |-> 2], [rx |-> 1, ry |-> 1, heading |-> 6],
          [rx |-> 2, ry |-> 1, heading |-> 4], [rx |-> 3, ry |-> 3, heading |-> 8] >>,
       << [rx |-> 0, ry |-> 0, heading |-> 3], [rx |-> 1, ry |-> 0, heading |-> 1],
          [rx |-> 0, ry |-> 1, heading |-> 5], [rx |-> 3, ry |-> 0, heading |-> 7] >> >>

\* The settings the flock is started with.
FlockSettings ==
    { Settings(3, 1, 3, W(1, 4, 2, 1), R(5, 3)),
      Settings(3, 1, 3, W(0, 0, 1, 0), R(9, 0)),
      Settings(3, 1, 3, W(0, 0, 0, 1), R(0, 0)),
      Settings(3, 2, 4, W(1, 1, 1, 1), R(3, 2)) }

\* The points clicked before the first frame, and the click sequences.
FlockPoints == {Pt(3, 4), Pt(6, 3), Pt(4, 2)}
FlockClicks ==
    UNION { {q \in [1..n -> FlockPoints] : \A i, j \in 1..n : i # j => q[i] # q[j]}
            : n \in 0..MaxObstacles }

\* new Runner(parameters) with numBoids = MaxFlock, then the clicks.
FlockInit ==
    /\ \E s \in FlockSettings, k \in 1..Len(FlockDraws), q \in FlockClicks :
          /\ parameters = parametersOf(s, MaxFlock)
          /\ boids = generateBoids(MaxFlock, FlockDraws[k], InitialSize, 0)
          /\ obstacles = [i \in 1..Len(q) |->
                             [pos |-> q[i],
                              affectRadius |-> s.obstacleAffectRadius,
                              runner |-> 0]]
          /\ events = Len(q)
    /\ copied = copiedFrom(parameters)
    /\ constructedWith = parameters
    /\ rewritten = FALSE
    /\ size = InitialSize
    /\ pc = "idle"
    /\ idx = 0
    /\ ticks = 0
    /\ resets = 0
    /\ replaced = FALSE
    /\ pre = boids
    /\ tickSize = size
    /\ noises = << >>
    /\ moved = << >>
    /\ calls = << >>

FlockNext ==
    \/ (ticks = 0 /\ onFrameBegin)
    \/ React
    \/ ReactLoopEnd
    \/ Update
    \/ onFrameEnd

FlockSpec == FlockInit /\ [][FlockNext]_vars


\* ------------------------------------------------------------------ claims
\* onFrame has run both loops to the end and has not yet returned.
TickDone == pc = "update" /\ idx > Len(boids)

CallsOf(kind, i) == {k \in 1..Len(calls) : calls[k] = <<kind, i>>}

\* C1: in every tick react is called exactly once on every boid and update
\* exactly once on every boid, and every react call comes before the first
\* update call.
C1_TwoPhaseOrder ==
    /\ \A k, l \in 1..Len(calls) :
          calls[k][1] = "react" /\ calls[l][1] = "update" => k < l
    /\ \A i \in 1..Len(boids) :
          /\ Cardinality(CallsOf("react", i)) <= 1
          /\ Cardinality(CallsOf("update", i)) <= 1
    /\ pc = "update" =>
          \A i \in 1..Len(boids) : Cardinality(CallsOf("react", i)) = 1
    /\ TickDone =>
          \A i \in 1..Len(boids) : Cardinality(CallsOf("update", i)) = 1

C1_Witness == TickDone /\ Len(boids) = 2 /\ Len(calls) = 4

Injections(n) ==
    {f \in [1..n -> 1..n] : \A a, b \in 1..n : f[a] = f[b] => a = b}

RECURSIVE reactInOrder(_, _, _, _, _, _)
reactInOrder(bs, order, k, obs, P, ns) ==
    IF k = 0 THEN bs
    ELSE react(reactInOrder(bs, order, k - 1, obs, P, ns),
               order[k], obs, P, ns[order[k]])

RECURSIVE updateUpTo(_, _, _)
updateUpTo(bs, k, sz) ==
    IF k = 0 THEN bs ELSE update(updateUpTo(bs, k - 1, sz), k, sz)

\* C3: with the same pre-tick boids, obstacles and per-boid noise, the boids
\* after the tick are the same for every order in which the react loop
\* visits them.
C3_OrderIndependent ==
    TickDone =>
        \A order \in Injections(Len(pre)) :
            updateUpTo(reactInOrder(pre, order, Len(pre), obstacles,
                                    BoidParams, noises),
                       Len(pre), size) = boids

\* p.length <= r as the code would test it; false on NaN.
LengthLE(p, r) == ~p.nan /\ r >= 0 /\ Len2(p) <= r * r

\* C4: after every tick every boid's speed is at most maxSpeed.
C4_SpeedWithinMax ==
    TickDone => \A i \in 1..Len(boids) : LengthLE(boids[i].vel, BoidParams.maxSpeed)

\* C5: after every tick every position satisfies 0 <= x < width and
\* 0 <= y < height.
C5_InsideHalfOpenDomain ==
    TickDone =>
        \A i \in 1..Len(boids) :
            /\ ~boids[i].pos.nan
            /\ 0 <= boids[i].pos.x /\ boids[i].pos.x < size.width
            /\ 0 <= boids[i].pos.y /\ boids[i].pos.y < size.height

C7_TeleportWrapPerAxis ==
    \A k \in 1..Len(moved) :
        ~moved[k].nan =>
            /\ ~boids[k].pos.nan
            /\ moved[k].x > tickSize.width => boids[k].pos.x = 0
            /\ moved[k].x < 0 => boids[k].pos.x = tickSize.width
            /\ moved[k].y > tickSize.height => boids[k].pos.y = 0
            /\ moved[k].y < 0 => boids[k].pos.y = tickSize.height
            /\ (0 <= moved[k].x /\ moved[k].x <= tickSize.width)
                  => boids[k].pos.x = moved[k].x
            /\ (0 <= moved[k].y /\ moved[k].y <= tickSize.height)
                  => boids[k].pos.y = moved[k].y

C7_Witness ==
    \E k \in 1..Len(moved) :
        /\ ~moved[k].nan
        /\ moved[k].x < 0
        /\ 0 < moved[k].y /\ moved[k].y < tickSize.height
        /\ boids[k].pos = Pt(tickSize.width, moved[k].y)

InBounds(p, sz) ==
    ~p.nan /\ 0 <= p.x /\ p.x <= sz.width /\ 0 <= p.y /\ p.y <= sz.height

\* C8: a position that enters the boundary pass inside the bounds leaves it
\* unchanged.
C8_InBoundsUnchanged ==
    \A k \in 1..Len(moved) :
        InBounds(moved[k], tickSize) => boids[k].pos = moved[k]

C8_Witness ==
    \E k \in 1..Len(moved) :
        /\ InBounds(moved[k], tickSize)
        /\ moved[k] # pre[k].pos
        /\ moved[k].y = 0

\* Boid i sees no other boid within either radius, and no obstacle qualifies.
Isolated(bs, i, obs, P) ==
    /\ AvoidanceSeen(bs, i, P) = {}
    /\ FollowSeen(bs, i, P) = {}
    /\ obstacleScan(bs[i], obs, Len(obs)).closest < 0

\* The clamp that ends updateVelocity.
ClampToMaxSpeed(v, P) == IF LengthGT(v, P.maxSpeed) THEN setLength(v, P.maxSpeed) ELSE v

\* C9: a boid with no other boid within followRadius or avoidRadius and no
\* qualifying obstacle gets zero cohesion, avoidance, following and obstacle
\* force, so that its velocity before the clamp is its pre-tick velocity plus
\* the noise, whose components are at most 0.1 in magnitude.
C9_IsolatedOnlyNoise ==
    TickDone =>
        \A i \in 1..Len(pre) :
            Isolated(pre, i, obstacles, BoidParams) =>
                /\ getCohesionVector(pre, i, BoidParams) = ZeroPoint
                /\ getAvoidanceVector(pre, i, BoidParams) = ZeroPoint
                /\ getFollowVector(pre, i, BoidParams) = ZeroPoint
                /\ getObstacleVector(pre[i], obstacles) = ZeroPoint
                /\ boids[i].vel = ClampToMaxSpeed(add(pre[i].vel, noises[i]), BoidParams)
                /\ Abs(noises[i].x) <= NoiseMax /\ Abs(noises[i].y) <= NoiseMax

\* sqrt(after) >= sqrt(before) - 2 * sqrt(2) * NoiseMax, on squared lengths:
\* the two noise vectors displace the pair by at most that much.
WithinNoise(after, before) ==
    LET s2 == 8 * NoiseMax * NoiseMax
        t == before - s2 - after
    IN  t <= 0 \/ t * t <= 4 * s2 * after

separation(bs) == subtract(bs[2].pos, bs[1].pos)

\* Two boids closer than avoidRadius, only the avoidance weight set, both
\* velocities within maxSpeed.
AvoidingPair(bs, P) ==
    /\ Len(bs) = 2
    /\ P.weights.avoidance > 0
    /\ P.weights.cohesion = 0 /\ P.weights.following = 0 /\ P.weights.obstacles = 0
    /\ LengthLT(separation(bs), P.perceptionRadii.avoidRadius)
    /\ LengthLE(bs[1].vel, P.maxSpeed)
    /\ LengthLE(bs[2].vel, P.maxSpeed)

\* C10 as stated: for an avoiding pair, whatever the two velocities, the
\* distance after the tick is not below the distance before it (up to noise).
C10_PairNeverCloser ==
    (TickDone /\ AvoidingPair(pre, BoidParams)) =>
        /\ ~separation(boids).nan
        /\ WithinNoise(Len2(separation(boids)), Len2(separation(pre)))

\* Only the obstacle weight is set.
ObstacleOnly(P) ==
    /\ P.weights.obstacles > 0
    /\ P.weights.cohesion = 0 /\ P.weights.avoidance = 0 /\ P.weights.following = 0

\* Obstacle o lies ahead of boid b along its velocity, at a perpendicular
\* offset |cross(vel, disp)| / |vel| below o.affectRadius (0 included).
AheadWithin(b, o) ==
    /\ ~b.pos.nan /\ ~b.vel.nan
    /\ dot(subtract(o.pos, b.pos), b.vel) > 0
    /\ o.affectRadius > 0
    /\ cross(b.vel, subtract(o.pos, b.pos)) * cross(b.vel, subtract(o.pos, b.pos))
           < o.affectRadius * o.affectRadius * Len2(b.vel)

\* C11: with one obstacle ahead of a boid at a perpendicular offset p,
\* 0 <= p < affectRadius, and only the obstacle weight set, the obstacle force
\* of that tick is not zero and points to the side of the line of travel
\* opposite to the obstacle.
C11_ObstacleAheadDeflects ==
    (TickDone /\ Len(obstacles) = 1 /\ ObstacleOnly(BoidParams)) =>
        \A i \in 1..Len(pre) :
            AheadWithin(pre[i], obstacles[1]) =>
                LET force == getObstacleVector(pre[i], obstacles)
                    side == cross(pre[i].vel, subtract(obstacles[1].pos, pre[i].pos))
                IN  /\ ~force.nan
                    /\ force # ZeroPoint
                    /\ cross(pre[i].vel, force) * side < 0

\* A step of onFrame (advance).
InsideTick == pc # "idle" \/ pc' # "idle"

\* C12: while a simulation lives, the number of boids never changes, onFrame
\* leaves the obstacle list as it is, and a click appends exactly one
\* obstacle, leaving the obstacles already there and all boids as they are.
C12_RegistriesOnlyGrow ==
    [][ resets' = resets =>
          /\ Len(boids') = Len(boids)
          /\ InsideTick => obstacles' = obstacles
          /\ obstacles' # obstacles =>
                /\ Len(obstacles') = Len(obstacles) + 1
                /\ SubSeq(obstacles', 1, Len(obstacles)) = obstacles
                /\ boids' = boids ]_vars

C12_Witness ==
    /\ TickDone
    /\ Len(boids) = 2
    /\ Len(obstacles) = 2
    /\ obstacles[1].pos # obstacles[2].pos

\* The boids a whole tick yields from boids bs with the obstacle list obs,
\* the noise draws ns and the view size sz, in the order of the code.
tickResult(bs, obs, P, ns, sz) ==
    updateUpTo(reactInOrder(bs, [i \in 1..Len(bs) |-> i], Len(bs), obs, P, ns),
               Len(bs), sz)

\* C13: every obstacle is stored with the configured obstacleAffectRadius at
\* a click point; the obstacle list changes only between two frames; and a
\* tick computes every boid's velocity with the whole obstacle list, the
\* obstacles placed since the tick before included.
C13_StoredAndSeen ==
    /\ [](/\ \A k \in 1..Len(obstacles) :
                /\ obstacles[k].affectRadius = parameters.overall.obstacleAffectRadius
                /\ obstacles[k].pos \in MousePoints
          /\ TickDone => boids = tickResult(pre, obstacles, BoidParams, noises, size))
    /\ [][obstacles' # obstacles => (pc = "idle" /\ pc' = "idle")]_vars

\* A tick that ran right after a click and whose outcome the new obstacle
\* changed.
C13_Witness ==
    /\ TickDone
    /\ Len(obstacles) >= 1
    /\ boids # tickResult(pre, SubSeq(obstacles, 1, Len(obstacles) - 1),
                          BoidParams, noises, size)

\* C14: a submission replaces the simulation as a whole: the step leaves
\* exactly numBoids boids, all of them made by the new Runner's constructor
\* in the current view, and an empty obstacle list; and at every moment all
\* boids and obstacles the handlers work on belong to the latest Runner.
C14_ResetReplacesAll ==
    /\ [](/\ \A i \in 1..Len(boids) : boids[i].runner = resets
          /\ \A k \in 1..Len(obstacles) : obstacles[k].runner = resets
          /\ pc # "idle" => \A i \in 1..Len(pre) : pre[i].runner = resets)
    /\ [][resets' # resets =>
            /\ obstacles' = << >>
            /\ Len(boids') = parameters'.overall.numBoids
            /\ \E k \in 1..Len(Draws) :
                  boids' = generateBoids(Len(boids'), Draws[k], size, resets')
            /\ pc' = "idle"]_vars

\* A tick of the new simulation, after a submission that dropped boids and
\* obstacles.
C14_Witness ==
    /\ resets >= 1
    /\ replaced
    /\ TickDone
    /\ Len(boids) >= 1

\* A configuration the specification calls invalid.
InvalidConfiguration(ps) ==
    \/ ps.overall.numBoids < 0
    \/ ps.perceptionRadii.followRadius < 0
    \/ ps.perceptionRadii.avoidRadius < 0

\* C15: a configuration with a negative count or a negative radius is
\* rejected by the constructor, so no frame ever runs with it.
C15_InvalidConfigurationRejected ==
    InvalidConfiguration(parameters) => ticks = 0

\* C16: no computation yields an undefined number: the avoidance vector the
\* next react computes is a defined vector, two boids at one position
\* included, and every boid's position and velocity are defined at every
\* moment.
C16_NoUndefinedNumbers ==
    /\ \A i \in 1..Len(boids) : ~boids[i].pos.nan /\ ~boids[i].vel.nan
    /\ (pc = "react" /\ idx <= Len(boids)) =>
           ~getAvoidanceVector(boids, idx, BoidParams).nan

\* C17: a resize changes the view size and nothing else (no boid, no
\* obstacle, no parameter), and every boundary pass compares against the
\* size the view has then, so a boid left beyond a new upper bound is wrapped
\* by the next update and not before.
C17_ResizeOnlyMovesBounds ==
    /\ [](pc = "update" =>
             \A k \in 1..Len(moved) : boids[k].pos = checkBorders(moved[k], size))
    /\ [][size' # size =>
            /\ boids' = boids
            /\ obstacles' = obstacles
            /\ parameters' = parameters
            /\ pc = "idle" /\ pc' = "idle"]_vars

\* A boid that the resize left beyond the new width, and that the next tick
\* sent to x = 0 from a position the first view would have kept.
C17_Witness ==
    /\ TickDone
    /\ resets = 0
    /\ size.width < InitialSize.width
    /\ \E k \in 1..Len(boids) :
          /\ pre[k].pos.x > size.width
          /\ moved[k].x > size.width
          /\ moved[k].x <= InitialSize.width
          /\ boids[k].pos.x = 0

\* C18: getSteer of the zero vector is the zero vector whatever the boid's
\* velocity, maxSpeed and maxForce; so is the following force of a boid that
\* sees no other boid (its average velocity is the zero vector).
C18_SteerOfZeroIsZero ==
    \A i \in 1..Len(boids) :
        /\ getSteer(ZeroPoint, boids[i].vel, BoidParams) = ZeroPoint
        /\ FollowSeen(boids, i, BoidParams) = {} =>
               getFollowVector(boids, i, BoidParams) = ZeroPoint

\* A moving boid about to react that sees nobody, with a steer that could
\* act (following weight, maxSpeed and maxForce all positive).
C18_Witness ==
    /\ pc = "react"
    /\ idx <= Len(boids)
    /\ FollowSeen(boids, idx, BoidParams) = {}
    /\ ~boids[idx].vel.nan
    /\ boids[idx].vel # ZeroPoint
    /\ BoidParams.weights.following > 0
    /\ BoidParams.maxSpeed > 0
    /\ BoidParams.maxForce > 0

\* C19: with numBoids = 0 there is no boid, a frame makes no react and no
\* update call, and with an empty obstacle list every step of the frame
\* leaves both lists empty.
C19_EmptyFlockNoOp ==
    /\ [](parameters.overall.numBoids = 0 =>
             (boids = << >> /\ calls = << >> /\ moved = << >>))
    /\ [][(parameters.overall.numBoids = 0 /\ obstacles = << >> /\ InsideTick) =>
             (boids' = << >> /\ obstacles' = << >>)]_vars

\* Two frames in a row have run to their end on the empty simulation.
C19_Witness ==
    /\ parameters.overall.numBoids = 0
    /\ resets = 0
    /\ obstacles = << >>
    /\ ticks = 2
    /\ TickDone

\* The boids other than `me` strictly closer to it than r.
OthersWithin(bs, me, r) ==
    {j \in 1..Len(bs) :
        /\ j # me
        /\ ~bs[j].pos.nan /\ ~bs[me].pos.nan
        /\ r > 0
        /\ Len2(subtract(bs[j].pos, bs[me].pos)) < r * r}

\* C20 as stated: avoidance and following use the other boids strictly
\* within their radius, and cohesion uses those within followRadius and the
\* acting boid as well, so that its divisor is k + 1 for k others in range.
C20_CohesionDivisorCountsSelf ==
    \A i \in 1..Len(boids) :
        /\ AvoidanceSeen(boids, i, BoidParams)
               = OthersWithin(boids, i, BoidParams.perceptionRadii.avoidRadius)
        /\ FollowSeen(boids, i, BoidParams)
               = OthersWithin(boids, i, BoidParams.perceptionRadii.followRadius)
        /\ Cardinality(CohesionSeen(boids, i, BoidParams))
               = Cardinality(OthersWithin(boids, i,
                                          BoidParams.perceptionRadii.followRadius)) + 1

\* The acting boid passes the cohesion loop's own test: its displacement to
\* itself has a length (0) below followRadius.
CountsItself(bs, me, P) == ~bs[me].pos.nan /\ P.perceptionRadii.followRadius > 0

\* C20 amended: as above, but the acting boid is in the cohesion set only if
\* followRadius > 0 and its position is a number; then the divisor is k + 1,
\* otherwise the set is the set of the others in range (empty for radius 0).
C20_CohesionCountsSelfIfInRange ==
    \A i \in 1..Len(boids) :
        /\ AvoidanceSeen(boids, i, BoidParams)
               = OthersWithin(boids, i, BoidParams.perceptionRadii.avoidRadius)
        /\ FollowSeen(boids, i, BoidParams)
               = OthersWithin(boids, i, BoidParams.perceptionRadii.followRadius)
        /\ CohesionSeen(boids, i, BoidParams)
               = OthersWithin(boids, i, BoidParams.perceptionRadii.followRadius)
                     \cup (IF CountsItself(boids, i, BoidParams) THEN {i} ELSE {})
        /\ BoidParams.perceptionRadii.followRadius = 0 =>
               CohesionSeen(boids, i, BoidParams) = {}

\* A boid about to react with another boid within followRadius (divisor 2)
\* that stands exactly avoidRadius away and is left out of the avoidance.
C20_Witness ==
    /\ pc = "react"
    /\ idx <= Len(boids)
    /\ Len(boids) = 2
    /\ Cardinality(CohesionSeen(boids, idx, BoidParams)) = 2
    /\ BoidParams.perceptionRadii.avoidRadius > 0
    /\ \E j \in 1..Len(boids) :
          /\ j # idx
          /\ Len2(displacement(boids, j, idx))
                 = BoidParams.perceptionRadii.avoidRadius
                       * BoidParams.perceptionRadii.avoidRadius
          /\ j \notin AvoidanceSeen(boids, idx, BoidParams)

\* The boid whose react call is next.
Reacting == pc = "react" /\ idx <= Len(boids)

\* C21: when the cohesion loop counts nobody (followRadius = 0, say), what
\* it hands to getSteer is the zero vector and the cohesion force is zero,
\* wherever the boid stands.
C21_EmptyCohesionIsZero ==
    (/\ Reacting
     /\ ~boids[idx].pos.nan /\ ~boids[idx].vel.nan
     /\ CohesionSeen(boids, idx, BoidParams) = {}) =>
        /\ cohesionDesired(boids, idx, BoidParams) = ZeroPoint
        /\ getCohesionVector(boids, idx, BoidParams) = ZeroPoint

\* Both coordinates of p are multiples of n: p.divide(n) is exact on the
\* lattice.
DividesEvenly(p, n) == n > 0 /\ p.x % n = 0 /\ p.y % n = 0

\* C22: the following force is getSteer of the average of the velocities, as
\* they stand when the boid reacts, of the other boids within followRadius,
\* and zero when there is none; the development function yields the same.
C22_FollowSteersAverage ==
    Reacting =>
        LET P == BoidParams
            others == OthersWithin(boids, idx, P.perceptionRadii.followRadius)
            n == Cardinality(others)
            total == avgVelocitySum(boids, others, Len(boids))
            force == getFollowVector(boids, idx, P)
        IN  /\ n = 0 => force = ZeroPoint
            /\ DividesEvenly(total, n) =>
                   force = getSteer(divide(total, n), boids[idx].vel, P)
            /\ (n = 0 \/ DividesEvenly(total, n)) =>
                   force = dev_getFollowVector(boids, idx, P)

\* The third boid reacts, sees the two others, one of them with the velocity
\* its own react has just given it, and their average is not their sum.
C22_Witness ==
    /\ Reacting
    /\ idx = 3
    /\ boids[1].vel # pre[1].vel
    /\ LET P == BoidParams
           others == OthersWithin(boids, idx, P.perceptionRadii.followRadius)
           total == avgVelocitySum(boids, others, Len(boids))
       IN  /\ Cardinality(others) = 2
           /\ DividesEvenly(total, 2)
           /\ total # ZeroPoint
           /\ getFollowVector(boids, idx, P) # ZeroPoint
           /\ P.weights.following > 0

\* The square of the distance from boid b to obstacle o.
distance2(b, o) == Len2(subtract(o.pos, b.pos))

\* The obstacles whose perpendicular offset from the line of travel of b,
\* |cross(vel, disp)| / |vel|, is below their affectRadius.
Qualifying(b, obs) ==
    {k \in 1..Len(obs) :
        /\ Len2(b.vel) > 0
        /\ obs[k].affectRadius > 0
        /\ cross(b.vel, subtract(obs[k].pos, b.pos))
               * cross(b.vel, subtract(obs[k].pos, b.pos))
               < obs[k].affectRadius * obs[k].affectRadius * Len2(b.vel)}

\* C23: the obstacle force of the reacting boid is zero when no obstacle
\* qualifies (an empty list included); otherwise it is the normalized negated
\* perpendicular offset of one qualifying obstacle that no qualifying
\* obstacle is nearer than, whatever the obstacles that do not qualify, and
\* it is that unit vector itself, with no getSteer and no maxForce in it.
\* The development function yields the same.
C23_ClosestQualifyingObstacle ==
    (Reacting /\ ~boids[idx].pos.nan /\ ~boids[idx].vel.nan) =>
        LET b == boids[idx]
            Q == Qualifying(b, obstacles)
            force == getObstacleVector(b, obstacles)
        IN  /\ Q = {} => force = ZeroPoint
            /\ Q # {} =>
                   \E k \in Q :
                      /\ \A j \in Q : distance2(b, obstacles[k]) <= distance2(b, obstacles[j])
                      /\ force = normalize(multiply(
                                     perpOf(subtract(obstacles[k].pos, b.pos), b.vel),
                                     0 - 1))
            /\ force = dev_getObstacleVector(b, obstacles)

\* A boid reacts with two obstacles placed: the nearer one does not qualify,
\* the farther one does and gives a force longer than maxForce.
C23_Witness ==
    /\ Reacting
    /\ Len(obstacles) = 2
    /\ BoidParams.weights.obstacles > 0
    /\ \E k, j \in 1..2 :
          /\ Qualifying(boids[idx], obstacles) = {k}
          /\ j # k
          /\ distance2(boids[idx], obstacles[j]) < distance2(boids[idx], obstacles[k])
    /\ getObstacleVector(boids[idx], obstacles) # ZeroPoint
    /\ LengthGT(getObstacleVector(boids[idx], obstacles), BoidParams.maxForce)

\* C24: a boid whose velocity is the zero vector when it reacts gets a zero
\* obstacle force whatever the obstacle list holds, and ends the tick with a
\* defined velocity and a defined position.
C24_ZeroVelocityNoObstacleCheck ==
    /\ (Reacting /\ boids[idx].vel = ZeroPoint) =>
           /\ getObstacleVector(boids[idx], obstacles) = ZeroPoint
           /\ dev_getObstacleVector(boids[idx], obstacles) = ZeroPoint
    /\ TickDone =>
           \A i \in 1..Len(pre) :
               (pre[i].vel = ZeroPoint /\ ~pre[i].pos.nan) =>
                   (~boids[i].vel.nan /\ ~boids[i].pos.nan)

\* The vector v with its length cut down to m.
clampLength(v, m) == IF LengthGT(v, m) THEN setLength(v, m) ELSE v

\* What the avoidance and the following loop hand to getSteer.
avoidanceDesired(bs, me, P) == avoidanceSum(bs, me, AvoidanceSeen(bs, me, P), Len(bs))
followDesired(bs, me, P) == avgVelocitySum(bs, FollowSeen(bs, me, P), Len(bs))

\* C25: for each vector the reacting boid hands to getSteer that is not the
\* zero vector, the steer is that vector set to length maxSpeed, minus the
\* boid's velocity, cut down to length maxForce, so never longer than
\* maxForce; and with maxForce = 0 the cohesion, avoidance and following
\* forces are all zero.
C25_SteerClampedToMaxForce ==
    Reacting =>
        LET P == BoidParams
            v == boids[idx].vel
        IN  /\ \A desired \in {cohesionDesired(boids, idx, P),
                                avoidanceDesired(boids, idx, P),
                                followDesired(boids, idx, P)} :
                   ~LengthEQ0(desired) =>
                       /\ getSteer(desired, v, P)
                              = clampLength(subtract(setLength(desired, P.maxSpeed), v),
                                            P.maxForce)
                       /\ LengthLE(getSteer(desired, v, P), P.maxForce)
            /\ P.maxForce = 0 =>
                   /\ getCohesionVector(boids, idx, P) = ZeroPoint
                   /\ getAvoidanceVector(boids, idx, P) = ZeroPoint
                   /\ getFollowVector(boids, idx, P) = ZeroPoint

\* v0 + w_cohesion * C + w_avoidance * A + w_following * F + w_obstacles * O
\* + noise for boid `me` of bs, all four vectors taken from bs as it stands.
weightedSum(bs, me, obs, P, noise) ==
    add(add(add(add(add(bs[me].vel,
        multiply(getCohesionVector(bs, me, P), P.weights.cohesion)),
        multiply(getAvoidanceVector(bs, me, P), P.weights.avoidance)),
        multiply(getFollowVector(bs, me, P), P.weights.following)),
        multiply(getObstacleVector(bs[me], obs), P.weights.obstacles)),
        noise)

\* C26: a react call leaves the boid with the velocity
\* clampLength(v0 + the four weighted forces + noise, maxSpeed), every force
\* computed while the boid's velocity is still v0; the development function
\* (one sum) yields the same velocity (where its average is exact).
C26_VelocityAfterReact ==
    [][(pc = "react" /\ pc' = "react") =>
          LET P == BoidParams
              noise == noises'[idx]
              seen == FollowSeen(boids, idx, P)
          IN  /\ boids'[idx].vel
                     = clampLength(weightedSum(boids, idx, obstacles, P, noise),
                                   P.maxSpeed)
              /\ (seen = {} \/ DividesEvenly(followDesired(boids, idx, P),
                                              Cardinality(seen))) =>
                     boids'[idx].vel
                         = dev_applyForce(boids, idx, obstacles, P, noise)]_vars

\* The boids as they stood when boid `me` of this tick reacted.
beforeReact(me) == [boids EXCEPT ![me].vel = pre[me].vel]

\* A boid whose velocity was within maxSpeed has just reacted with all four
\* weights set, a cohesion, a following and an obstacle force that are not
\* zero, and a noise draw that is not zero.
C26_Witness ==
    /\ pc = "react"
    /\ idx > 1
    /\ LET me == idx - 1
           P == BoidParams
           bs == beforeReact(me)
       IN  /\ P.weights.cohesion > 0 /\ P.weights.avoidance > 0
           /\ P.weights.following > 0 /\ P.weights.obstacles > 0
           /\ P.maxSpeed > 0
           /\ LengthLE(pre[me].vel, P.maxSpeed)
           /\ getCohesionVector(bs, me, P) \notin {ZeroPoint, NaNPoint}
           /\ getFollowVector(bs, me, P) \notin {ZeroPoint, NaNPoint}
           /\ getObstacleVector(bs[me], obstacles) \notin {ZeroPoint, NaNPoint}
           /\ ~getAvoidanceVector(bs, me, P).nan
           /\ noises[me] # ZeroPoint
           /\ boids[me].vel = clampLength(weightedSum(bs, me, obstacles, P, noises[me]),
                                          P.maxSpeed)
           /\ boids[me].vel # pre[me].vel

\* C27: after a tick every boid stands at the boundary pass of its pre-tick
\* position plus the velocity its react of this same tick left it with: one
\* step of one velocity, and the boundary pass after the step.
C27_PositionAfterTick ==
    TickDone =>
        \A i \in 1..Len(boids) :
            boids[i].pos = checkBorders(add(pre[i].pos, boids[i].vel), size)

\* A tick has ended for a boid whose react changed its velocity, whose step
\* with the pre-tick velocity would have ended elsewhere, and whose step
\* left the view, so that the boundary pass moved it.
C27_Witness ==
    /\ TickDone
    /\ \E i \in 1..Len(boids) :
          /\ ~boids[i].pos.nan
          /\ boids[i].vel # pre[i].vel
          /\ LengthLE(pre[i].vel, BoidParams.maxSpeed)
          /\ checkBorders(add(pre[i].pos, pre[i].vel), size) # boids[i].pos
          /\ add(pre[i].pos, boids[i].vel) # boids[i].pos
          /\ boids[i].pos # pre[i].pos

\* C28: a react call changes the reacting boid's velocity and nothing else
\* of any boid, so that through the whole react loop all positions are the
\* pre-tick ones; an update call changes the updated boid's position and
\* nothing else of any boid; neither changes the obstacle list.
C28_OnlyTheActingAgent ==
    /\ [](pc = "react" => \A i \in 1..Len(boids) : boids[i].pos = pre[i].pos)
    /\ [][(pc = "react" /\ pc' = "react") =>
            /\ boids' = [boids EXCEPT ![idx].vel = boids'[idx].vel]
            /\ obstacles' = obstacles]_vars
    /\ [][(pc = "update" /\ pc' = "update") =>
            /\ boids' = [boids EXCEPT ![idx].pos = boids'[idx].pos]
            /\ obstacles' = obstacles]_vars

\* A tick of two boids with an obstacle placed has ended: the second boid
\* reacted and was updated after the first, and both calls changed it while
\* the first boid had already been changed.
C28_Witness ==
    /\ TickDone
    /\ Len(boids) = 2
    /\ Len(obstacles) >= 1
    /\ \A i \in 1..2 :
          /\ ~boids[i].pos.nan
          /\ boids[i].vel # pre[i].vel
          /\ boids[i].pos # pre[i].pos

\* 0 <= p.x <= width and 0 <= p.y <= height; false for an undefined p.
InClosedBounds(p, sz) ==
    /\ ~p.nan
    /\ 0 <= p.x /\ p.x <= sz.width
    /\ 0 <= p.y /\ p.y <= sz.height

\* C29: at the end of every tick, after any ticks, clicks and resizes, every
\* boid stands within the closed bounds of the view as it is in that tick.
C29_ClosedBoundsAfterTick ==
    TickDone => \A i \in 1..Len(boids) : InClosedBounds(boids[i].pos, size)

\* C30: whenever a frame is running, the weights the boids read through the
\* shared object and the radii, maxSpeed and maxForce they copied are those
\* of the parameters their Runner was constructed with; and the parameters
\* object changes only in a submission, between two frames, in the step that
\* constructs the Runner and the boids that replace the running ones.
C30_ParametersStableBetweenResets ==
    /\ [](pc # "idle" =>
             /\ BoidParams.weights = constructedWith.weights
             /\ BoidParams.perceptionRadii = constructedWith.perceptionRadii
             /\ BoidParams.maxSpeed = constructedWith.overall.maxSpeed
             /\ BoidParams.maxForce = constructedWith.overall.maxForce)
    /\ [][parameters' # parameters =>
            /\ pc = "idle" /\ pc' = "idle"
            /\ resets' = resets + 1
            /\ constructedWith' = parameters'
            /\ copied' = copiedFrom(parameters')
            /\ \A i \in 1..Len(boids') : boids'[i].runner = resets']_vars

\* A tick of the simulation constructed by a submission that stored other
\* weights than those the replaced simulation, with boids and obstacles of
\* its own, was running with.
C30_Witness ==
    /\ TickDone
    /\ resets = 1
    /\ rewritten
    /\ replaced
    /\ Len(boids) >= 1
    /\ boids # pre

=============================================================================
